---- MODULE Spec2Model ----
(***************************************************************************)
(* Model of gf::TileLayer (library/graphics/TileLayer.cc): the grid of     *)
(* (tile, flip) cells, the view-driven visible rectangle cached in m_rect, *)
(* the vertex stream m_vertices rebuilt by updateGeometry, and the         *)
(* tessellator fillVertexArray used by draw and commitGeometry.            *)
(*                                                                         *)
(* Arithmetic conventions.  Float world coordinates of draw are kept in    *)
(* thousandths of a world unit (gf::Sqrt2 is 1.414 in that scale).  Vertex *)
(* positions are kept in halves of a world unit, because the staggered     *)
(* placement divides a float by two.  Grid coordinates are 32-bit ints.    *)
(***************************************************************************)
EXTENDS Integers, Sequences, FiniteSets, TLC

VARIABLES
  m_orientation,  \* TileOrientation, fixed by the constructor
  m_layerSize,    \* Vector2i, fixed by the constructor
  m_tileSize,     \* Vector2i
  m_tiles,        \* Array2D<Cell>: cell position -> [tile, flip]
  m_rect,         \* RectI cached by draw
  m_vertices,     \* VertexArray owned by the layer
  m_tileset,      \* the borrowed tileset: hasTexture, tileSize, offset
  nanInt,         \* what this build's float->int conversion yields for NaN
  call,           \* the last member function called, with its arguments
  fault,          \* contract violations of the last call
  rebuilt,        \* the last call ran updateGeometry
  presented,      \* the last call reached target.draw(m_vertices, ...)
  buffer          \* vertices of the VertexBuffer returned by the last call

vars == <<m_orientation, m_layerSize, m_tileSize, m_tiles, m_rect, m_vertices,
          m_tileset, nanInt, call, fault, rebuilt, presented, buffer>>

----------------------------------------------------------------------------
(* Values *)

NoTile == -1

IntMax == 2147483647

IntMin == (-IntMax) - 1

\* a + b in 32-bit two's complement
Add32(a, b) ==
  IF b > 0 /\ a > IntMax - b THEN ((a - IntMax) - 1) + (b + IntMin)
  ELSE IF b < 0 /\ a < IntMin - b THEN (a - IntMin) + ((b + IntMax) + 1)
  ELSE a + b

Max(a, b) == IF a >= b THEN a ELSE b

Min(a, b) == IF a <= b THEN a ELSE b

Vec(a, b) == [x |-> a, y |-> b]

Rect(lo, hi) == [min |-> lo, max |-> hi]

None == {}

Flip == {"Horizontally", "Vertically", "Diagonally"}

NoCell == [tile |-> NoTile, flip |-> None]

----------------------------------------------------------------------------
(* gf::Rect<T> *)

RectDefault == Rect(Vec(0, 0), Vec(0, 0))

RectEmpty == Rect(Vec(IntMax, IntMax), Vec(IntMin, IntMin))

fromPositionSize(position, size) ==
  Rect(position, Vec(position.x + size.x, position.y + size.y))

fromPositionSizeI(position, size) ==
  Rect(position, Vec(Add32(position.x, size.x), Add32(position.y, size.y)))

fromCenterSize(center, size) ==
  Rect(Vec(center.x - size.x \div 2, center.y - size.y \div 2),
       Vec(center.x + size.x \div 2, center.y + size.y \div 2))

grow(r, value) ==
  Rect(Vec(r.min.x - value, r.min.y - value), Vec(r.max.x + value, r.max.y + value))

intersects(r, other) ==
  /\ r.min.x < other.max.x
  /\ other.min.x < r.max.x
  /\ r.min.y < other.max.y
  /\ other.min.y < r.max.y

getIntersection(r, other) ==
  Rect(Vec(Max(r.min.x, other.min.x), Max(r.min.y, other.min.y)),
       Vec(Min(r.max.x, other.max.x), Min(r.max.y, other.max.y)))

getPosition(r) == r.min

getSize(r) == Vec(r.max.x - r.min.x, r.max.y - r.min.y)

----------------------------------------------------------------------------
(* Grid storage *)

Positions(layerSize) ==
  {Vec(i, j) : i \in 0..(layerSize.x - 1), j \in 0..(layerSize.y - 1)}

isValid(position) ==
  /\ 0 <= position.x /\ position.x < m_layerSize.x
  /\ 0 <= position.y /\ position.y < m_layerSize.y

getTileIn(tiles, position) == tiles[position].tile

getFlipIn(tiles, position) == tiles[position].flip

getTile(position) == getTileIn(m_tiles, position)

getFlip(position) == getFlipIn(m_tiles, position)

cleared(layerSize) == [p \in Positions(layerSize) |-> NoCell]

----------------------------------------------------------------------------
(* Tessellator *)

\* corner k (0 top-left, 1 top-right, 2 bottom-left, 3 bottom-right) of the
\* rectangle m_tileset.computeTextureCoords(tile)
TexCorner(tile, k) == [tile |-> tile, corner |-> k]

\* position of the box of a cell, in halves of a world unit
CellPosition(cell) ==
  IF m_orientation = "Orthogonal"
  THEN Vec(2 * (cell.x * m_tileSize.x + m_tileset.offset.x),
           2 * (cell.y * m_tileSize.y + m_tileset.offset.y))
  ELSE IF cell.y % 2 = 0
       THEN Vec(2 * (cell.x * m_tileSize.x) + 2 * m_tileset.offset.x,
                cell.y * m_tileSize.y + 2 * m_tileset.offset.y)
       ELSE Vec(2 * (cell.x * m_tileSize.x) + 2 * (m_tileSize.x \div 2)
                  + 2 * m_tileset.offset.x,
                cell.y * m_tileSize.y + 2 * m_tileset.offset.y)

\* size of the box of a cell, in halves of a world unit
CellSize ==
  IF m_orientation = "Orthogonal"
  THEN Vec(2 * m_tileSize.x, 2 * m_tileSize.y)
  ELSE Vec(2 * m_tileset.tileSize.x, 2 * m_tileset.tileSize.y)

\* the four corners of a box, in the order of vertices[0..3]
BoxCorners(position, size) ==
  << position,
     Vec(position.x + size.x, position.y),
     Vec(position.x, position.y + size.y),
     Vec(position.x + size.x, position.y + size.y) >>

Swap(s, i, j) == [s EXCEPT ![i] = s[j], ![j] = s[i]]

\* the flip tests with Horizontally tested before Diagonally
FlipTexCoords_HorizontalFirst(tile, flip) ==
  LET t0 == << TexCorner(tile, 0), TexCorner(tile, 1),
               TexCorner(tile, 2), TexCorner(tile, 3) >>
      t1 == IF "Horizontally" \in flip THEN Swap(Swap(t0, 1, 2), 3, 4) ELSE t0
      t2 == IF "Diagonally" \in flip THEN Swap(t1, 2, 3) ELSE t1
      t3 == IF "Vertically" \in flip THEN Swap(Swap(t2, 1, 3), 2, 4) ELSE t2
  IN  t3

\* texCoords of vertices[0..3] after the three flip tests
FlipTexCoords(tile, flip) ==
  LET t0 == << TexCorner(tile, 0), TexCorner(tile, 1),
               TexCorner(tile, 2), TexCorner(tile, 3) >>
      t1 == IF "Diagonally" \in flip THEN Swap(t0, 2, 3) ELSE t0
      t2 == IF "Horizontally" \in flip THEN Swap(Swap(t1, 1, 2), 3, 4) ELSE t1
      t3 == IF "Vertically" \in flip THEN Swap(Swap(t2, 1, 3), 2, 4) ELSE t2
  IN  t3

\* the six vertices appended for one non-empty cell
CellVertices(cell, content) ==
  LET pos == BoxCorners(CellPosition(cell), CellSize)
      tex == FlipTexCoords(content.tile, content.flip)
      v(k) == [position |-> pos[k], texCoords |-> tex[k]]
  IN  << v(1), v(2), v(3), v(3), v(2), v(4) >>

\* the two loops nested the other way round: x outer, y inner
CellSeq_ColumnMajor(rect) ==
  LET w == IF rect.max.x >= rect.min.x THEN rect.max.x - rect.min.x + 1 ELSE 0
      h == IF rect.max.y >= rect.min.y THEN rect.max.y - rect.min.y + 1 ELSE 0
  IN  [i \in 1..(w * h) |->
         Vec(rect.min.x + ((i - 1) \div h), rect.min.y + ((i - 1) % h))]

\* the cells the two nested loops visit, in visiting order
CellSeq(rect) ==
  LET w == IF rect.max.x >= rect.min.x THEN rect.max.x - rect.min.x + 1 ELSE 0
      h == IF rect.max.y >= rect.min.y THEN rect.max.y - rect.min.y + 1 ELSE 0
  IN  [i \in 1..(w * h) |->
         Vec(rect.min.x + ((i - 1) % w), rect.min.y + ((i - 1) \div w))]

\* m_tiles(cell): a read outside the grid yields the arbitrary content g
ReadCell(cell, g) == IF isValid(cell) THEN m_tiles[cell] ELSE g

RECURSIVE fillFrom(_, _, _, _)
fillFrom(array, cells, i, g) ==
  IF i > Len(cells) THEN array
  ELSE LET content == ReadCell(cells[i], g)
       IN  IF content.tile = NoTile
           THEN fillFrom(array, cells, i + 1, g)
           ELSE fillFrom(array \o CellVertices(cells[i], content), cells, i + 1, g)

fillVertexArray(array, rect, g) == fillFrom(array, CellSeq(rect), 1, g)

\* the assertions of fillVertexArray that fail for this rectangle
fillFaults(rect, g) ==
  LET cells == CellSeq(rect)
  IN  IF \/ \E i \in 1..Len(cells) : ~isValid(cells[i])
         \/ /\ m_orientation = "Unknown"
            /\ \E i \in 1..Len(cells) : ReadCell(cells[i], g).tile # NoTile
      THEN {"assert"} ELSE {}

----------------------------------------------------------------------------
(* draw: the viewable part of the layer *)

Milli(n) == 1000 * n

\* gf::Sqrt2 * n, in thousandths
Sqrt2Times(n) == 1414 * n

\* the tileSize local of draw
EffTileSize ==
  IF m_orientation = "Staggered"
  THEN Vec(m_tileSize.x, m_tileSize.y \div 2)
  ELSE m_tileSize

\* static_cast<int>(p / t + 0.5f) for a float p >= 0 given in thousandths;
\* with t = 0 the quotient is 0/0 = NaN and the conversion is undefined
ToGrid(p, t) == IF t = 0 THEN nanInt ELSE (2 * p + 1000 * t) \div (2000 * t)

\* the rectangle named local in draw (the layer keeps the identity transform)
LocalRect(view) ==
  LET side == Sqrt2Times(Max(view.size.x, view.size.y))
      world == fromCenterSize(Vec(Milli(view.center.x), Milli(view.center.y)),
                              Vec(side, side))
  IN  grow(world, Milli(Max(EffTileSize.x, EffTileSize.y)))

\* the rectangle named layer in draw
LayerRect ==
  fromPositionSize(Vec(0, 0), Vec(Milli(m_layerSize.x * EffTileSize.x),
                                  Milli(m_layerSize.y * EffTileSize.y)))

\* rect.intersects(other, rect): rect is overwritten only on success
ClampRect(rect) ==
  LET other == fromPositionSizeI(Vec(0, 0), Vec(m_layerSize.x - 1, m_layerSize.y - 1))
  IN  IF intersects(rect, other) THEN getIntersection(rect, other) ELSE rect

\* the rectangle named rect in draw, as compared with m_rect
GridRect(view) ==
  IF intersects(LocalRect(view), LayerRect)
  THEN LET intersection == getIntersection(LocalRect(view), LayerRect)
           position == getPosition(intersection)
           size == getSize(intersection)
       IN  ClampRect(fromPositionSizeI(
             Vec(ToGrid(position.x, EffTileSize.x), ToGrid(position.y, EffTileSize.y)),
             Vec(ToGrid(size.x, EffTileSize.x), ToGrid(size.y, EffTileSize.y))))
  ELSE RectDefault

\* draw divides by a zero component of tileSize
DividesByZero(view) ==
  /\ intersects(LocalRect(view), LayerRect)
  /\ (EffTileSize.x = 0 \/ EffTileSize.y = 0)

\* the first return of updateGeometry
SkipsFill ==
  ~m_tileset.hasTexture \/ m_tileSize.x = 0 \/ m_tileSize.y = 0

\* m_vertices after updateGeometry, with m_rect already set to rect
updateGeometry(rect, g) ==
  IF SkipsFill THEN << >> ELSE fillVertexArray(<< >>, rect, g)

updateFaults(rect, g) == IF SkipsFill THEN {} ELSE fillFaults(rect, g)

----------------------------------------------------------------------------
(* Inputs *)

MaxTile == 0

Tiles == 0..MaxTile

Orientations == {"Unknown", "Orthogonal", "Staggered"}

LayerSizes == {Vec(0, 0), Vec(1, 1), Vec(2, 1)}

TileSizes == {Vec(2, 2), Vec(0, 2)}

FlipInputs == {None, {"Horizontally"}}

\* the (tile, flip) pairs passed to setTile
CellInputs == {NoCell} \cup {[tile |-> t, flip |-> f] : t \in Tiles, f \in FlipInputs}

Tilesets ==
  {[hasTexture |-> b, tileSize |-> Vec(2, 2), offset |-> Vec(0, 0)] : b \in BOOLEAN}

View(cx, cy, w, h) == [center |-> Vec(cx, cy), size |-> Vec(w, h)]

\* around the origin, left of and above the layer, right of it, far from it
Views == {View(0, 0, 1, 1), View(-2, -2, 1, 1), View(6, 1, 1, 1), View(20, 20, 1, 1)}

\* what a read outside the grid may find
Garbage == {NoCell, [tile |-> 0, flip |-> None]}

\* what (int)NaN may be: 0x80000000 (cvttss2si) or 0 (saturating conversion)
NanInts == {IntMin, 0}

----------------------------------------------------------------------------
(* Operations *)

Constructed(layerSize, orientation, tileset, nan) ==
  /\ m_orientation = orientation
  /\ m_layerSize = layerSize
  /\ m_tileSize = Vec(0, 0)
  /\ m_tiles = cleared(layerSize)
  /\ m_rect = RectEmpty
  /\ m_vertices = << >>
  /\ m_tileset = tileset
  /\ nanInt = nan
  /\ call = [name |-> "TileLayer", arg |-> layerSize]
  /\ fault = {}
  /\ rebuilt = FALSE
  /\ presented = FALSE
  /\ buffer = << >>

Init ==
  \E layerSize \in LayerSizes, orientation \in Orientations,
     tileset \in Tilesets, nan \in NanInts :
    Constructed(layerSize, orientation, tileset, nan)

Fixed == <<m_orientation, m_layerSize, m_tileset, nanInt>>

setTileSize(tileSize) ==
  /\ m_tileSize' = tileSize
  /\ call' = [name |-> "setTileSize", arg |-> tileSize]
  /\ fault' = {}
  /\ rebuilt' = FALSE
  /\ presented' = FALSE
  /\ buffer' = << >>
  /\ UNCHANGED <<Fixed, m_tiles, m_rect, m_vertices>>

\* setTile storing the tile but not the flip
setTile_TileOnly(position, tile, flip) ==
  /\ isValid(position)
  /\ m_tiles' = [m_tiles EXCEPT ![position] = [tile |-> tile, flip |-> @.flip]]
  /\ call' = [name |-> "setTile",
              arg |-> [position |-> position, tile |-> tile, flip |-> flip]]
  /\ fault' = {}
  /\ rebuilt' = FALSE
  /\ presented' = FALSE
  /\ buffer' = << >>
  /\ UNCHANGED <<Fixed, m_tileSize, m_rect, m_vertices>>

setTile(position, tile, flip) ==
  /\ isValid(position)
  /\ m_tiles' = [m_tiles EXCEPT ![position] = [tile |-> tile, flip |-> flip]]
  /\ call' = [name |-> "setTile",
              arg |-> [position |-> position, tile |-> tile, flip |-> flip]]
  /\ fault' = {}
  /\ rebuilt' = FALSE
  /\ presented' = FALSE
  /\ buffer' = << >>
  /\ UNCHANGED <<Fixed, m_tileSize, m_rect, m_vertices>>

clear ==
  /\ m_tiles' = [p \in DOMAIN m_tiles |-> NoCell]
  /\ call' = [name |-> "clear", arg |-> << >>]
  /\ fault' = {}
  /\ rebuilt' = FALSE
  /\ presented' = FALSE
  /\ buffer' = << >>
  /\ UNCHANGED <<Fixed, m_tileSize, m_rect, m_vertices>>

commitGeometry ==
  LET rect == fromPositionSizeI(Vec(0, 0), m_layerSize)
  IN  /\ \E g \in Garbage :
           /\ buffer' = fillVertexArray(<< >>, rect, g)
           /\ fault' = fillFaults(rect, g)
      /\ call' = [name |-> "commitGeometry", arg |-> << >>]
      /\ rebuilt' = FALSE
      /\ presented' = FALSE
      /\ UNCHANGED <<Fixed, m_tileSize, m_tiles, m_rect, m_vertices>>

\* draw comparing only the min corner of the rectangles
draw_MinOnly(view) ==
  /\ call' = [name |-> "draw", arg |-> view]
  /\ buffer' = << >>
  /\ IF ~m_tileset.hasTexture \/ m_orientation = "Unknown"
     THEN /\ fault' = {}
          /\ rebuilt' = FALSE
          /\ presented' = FALSE
          /\ UNCHANGED <<m_rect, m_vertices>>
     ELSE LET rect == GridRect(view)
              nan == IF DividesByZero(view) THEN {"nan"} ELSE {}
          IN  /\ presented' = TRUE
              /\ IF rect.min # m_rect.min
                 THEN /\ m_rect' = rect
                      /\ rebuilt' = TRUE
                      /\ \E g \in Garbage :
                           /\ m_vertices' = updateGeometry(rect, g)
                           /\ fault' = nan \cup updateFaults(rect, g)
                 ELSE /\ rebuilt' = FALSE
                      /\ fault' = nan
                      /\ UNCHANGED <<m_rect, m_vertices>>
  /\ UNCHANGED <<Fixed, m_tileSize, m_tiles>>

draw(view) ==
  /\ call' = [name |-> "draw", arg |-> view]
  /\ buffer' = << >>
  /\ IF ~m_tileset.hasTexture \/ m_orientation = "Unknown"
     THEN /\ fault' = {}
          /\ rebuilt' = FALSE
          /\ presented' = FALSE
          /\ UNCHANGED <<m_rect, m_vertices>>
     ELSE LET rect == GridRect(view)
              nan == IF DividesByZero(view) THEN {"nan"} ELSE {}
          IN  /\ presented' = TRUE
              /\ IF rect # m_rect
                 THEN /\ m_rect' = rect
                      /\ rebuilt' = TRUE
                      /\ \E g \in Garbage :
                           /\ m_vertices' = updateGeometry(rect, g)
                           /\ fault' = nan \cup updateFaults(rect, g)
                 ELSE /\ rebuilt' = FALSE
                      /\ fault' = nan
                      /\ UNCHANGED <<m_rect, m_vertices>>
  /\ UNCHANGED <<Fixed, m_tileSize, m_tiles>>

Next ==
  \/ \E tileSize \in TileSizes : setTileSize(tileSize)
  \/ \E position \in Positions(m_layerSize), cell \in CellInputs :
       setTile(position, cell.tile, cell.flip)
  \/ clear
  \/ commitGeometry
  \/ \E view \in Views : draw(view)

Spec == Init /\ [][Next]_vars

----------------------------------------------------------------------------
(* The tessellator on its own: layers with arbitrary contents, then draws *)

FillLayerSizes == {Vec(2, 2), Vec(3, 2)}

FillTileSizes == {Vec(2, 4), Vec(3, 4)}

FillTilesets ==
  {[hasTexture |-> TRUE, tileSize |-> Vec(3, 5), offset |-> o] :
     o \in {Vec(0, 0), Vec(1, 2)}}

\* covering the layer, left of and above it, at its right edge, far from it
FillViews == {View(3, 4, 12, 12), View(-2, -2, 1, 1), View(6, 4, 1, 1), View(40, 40, 1, 1)}

InitFill ==
  \E layerSize \in FillLayerSizes, orientation \in {"Orthogonal", "Staggered"},
     tileset \in FillTilesets, tileSize \in FillTileSizes,
     tile \in Tiles, flip \in SUBSET Flip :
  \E filled \in SUBSET Positions(layerSize) :
    /\ m_orientation = orientation
    /\ m_layerSize = layerSize
    /\ m_tileSize = tileSize
    /\ m_tiles = [p \in Positions(layerSize) |->
                    IF p \in filled THEN [tile |-> tile, flip |-> flip] ELSE NoCell]
    /\ m_rect = RectEmpty
    /\ m_vertices = << >>
    /\ m_tileset = tileset
    /\ nanInt = 0
    /\ call = [name |-> "setTileSize", arg |-> tileSize]
    /\ fault = {}
    /\ rebuilt = FALSE
    /\ presented = FALSE
    /\ buffer = << >>

NextFill == \E view \in FillViews : draw(view)

SpecFill == InitFill /\ [][NextFill]_vars

----------------------------------------------------------------------------
(* Properties *)

NonEmptyCount == Cardinality({p \in DOMAIN m_tiles : m_tiles[p].tile # NoTile})

\* the cells of the grid inside the inclusive rectangle that hold a tile
NonEmptyIn(rect) ==
  {p \in DOMAIN m_tiles :
     /\ rect.min.x <= p.x /\ p.x <= rect.max.x
     /\ rect.min.y <= p.y /\ p.y <= rect.max.y
     /\ m_tiles[p].tile # NoTile}

\* how many cells of the set come before c in row-major order
RowMajorRank(c, cells) ==
  Cardinality({d \in cells : d.y < c.y \/ (d.y = c.y /\ d.x < c.x)})

\* the rectangle lies inside the grid
InsideGrid(rect) ==
  /\ 0 <= rect.min.x /\ rect.min.x <= rect.max.x /\ rect.max.x <= m_layerSize.x - 1
  /\ 0 <= rect.min.y /\ rect.min.y <= rect.max.y /\ rect.max.y <= m_layerSize.y - 1

\* the last call was a draw that rebuilt the stream over cells of the grid
RebuiltInsideGrid ==
  /\ call.name = "draw"
  /\ rebuilt
  /\ ~SkipsFill
  /\ InsideGrid(m_rect)

Degenerate ==
  \/ ~m_tileset.hasTexture
  \/ m_orientation = "Unknown"
  \/ m_tileSize.x = 0
  \/ m_tileSize.y = 0

\* C1: commitGeometry on a layer with a known orientation violates no
\* assertion (reads no cell outside the grid) and returns exactly six
\* vertices for each cell of the grid that holds a tile.
C1_CommitGeometry ==
  (call.name = "commitGeometry" /\ m_orientation # "Unknown")
    => (fault = {} /\ Len(buffer) = 6 * NonEmptyCount)

\* C2: a constructed layer reports (NoTile, None) everywhere; setTile(p, t, f)
\* makes getTile(p) = t and getFlip(p) = f and changes no other cell; clear
\* makes every cell (NoTile, None); draw, commitGeometry and setTileSize
\* change no cell.  Hence each cell reports its most recent setTile since the
\* last clear or construction.
C2_GridStorage ==
  /\ \A p \in DOMAIN m_tiles : getTile(p) = NoTile /\ getFlip(p) = None
  /\ [][\A p \in DOMAIN m_tiles :
          IF call'.name = "setTile" /\ call'.arg.position = p
          THEN /\ getTileIn(m_tiles', p) = call'.arg.tile
               /\ getFlipIn(m_tiles', p) = call'.arg.flip
          ELSE IF call'.name = "clear"
          THEN /\ getTileIn(m_tiles', p) = NoTile
               /\ getFlipIn(m_tiles', p) = None
          ELSE /\ getTileIn(m_tiles', p) = getTile(p)
               /\ getFlipIn(m_tiles', p) = getFlip(p)]_vars

\* a cell still reports the tile and flip set earlier, after a draw
C2_Witness ==
  /\ call.name = "draw"
  /\ presented
  /\ \E p \in DOMAIN m_tiles : getTile(p) = 0 /\ getFlip(p) = {"Horizontally"}
  /\ \E p \in DOMAIN m_tiles : getTile(p) = NoTile

\* C3: a draw that passes the first return rebuilds the vertex stream if and
\* only if the rectangle it computes differs from the cached one, and caches
\* the computed rectangle; a draw that repeats the view of the draw just
\* before it rebuilds nothing and leaves m_rect and m_vertices as they were.
C3_RebuildOnChange ==
  [][call'.name = "draw" =>
       IF ~m_tileset.hasTexture \/ m_orientation = "Unknown"
       THEN ~rebuilt' /\ m_rect' = m_rect /\ m_vertices' = m_vertices
       ELSE /\ rebuilt' <=> (GridRect(call'.arg) # m_rect)
            /\ m_rect' = GridRect(call'.arg)
            /\ ~rebuilt' => m_vertices' = m_vertices
            /\ (call.name = "draw" /\ call.arg = call'.arg)
                 => (~rebuilt' /\ m_rect' = m_rect /\ m_vertices' = m_vertices)]_vars

\* a draw found the cached rectangle unchanged and presented the tiles
\* tessellated by an earlier draw
C3_Witness ==
  /\ call.name = "draw"
  /\ presented
  /\ ~rebuilt
  /\ Len(m_vertices) > 0

\* C4: a draw in a degenerate configuration (no texture, orientation Unknown,
\* a zero tile width or height) divides by no zero tile dimension, fails no
\* assertion, and presents no vertex.
C4_Degenerate ==
  (call.name = "draw" /\ Degenerate)
    => (fault = {} /\ (presented => Len(m_vertices) = 0))

\* C5: with a texture, a known orientation and a non-zero effective tile
\* size, the rectangle cached by draw is the empty rectangle or lies inside
\* the grid, and the tessellator's isValid assertion does not fail.
C5_RectInsideGrid ==
  (/\ call.name = "draw" /\ presented
   /\ m_layerSize.x >= 1 /\ m_layerSize.y >= 1
   /\ EffTileSize.x # 0 /\ EffTileSize.y # 0)
    => /\ m_rect = RectEmpty \/ InsideGrid(m_rect)
       /\ "assert" \notin fault

\* the slots, among the six vertices of a cell, that first hold its
\* top-left, top-right, bottom-left and bottom-right corner
CornerSlot == << 1, 2, 3, 6 >>

\* the six vertices appended for the non-empty cell c of the cached rectangle
SixOf(c) ==
  LET base == 6 * RowMajorRank(c, NonEmptyIn(m_rect))
  IN  SubSeq(m_vertices, base + 1, base + 6)

\* corner i holds afterwards what corner perm[i] held before
Permuted(a, perm) == [i \in 1..4 |-> a[perm[i]]]

\* top-right <-> bottom-left
DiagonalSwap == << 1, 3, 2, 4 >>

\* top-left <-> top-right, bottom-left <-> bottom-right
HorizontalSwap == << 2, 1, 4, 3 >>

\* top-left <-> bottom-left, top-right <-> bottom-right
VerticalSwap == << 3, 4, 1, 2 >>

\* Diagonal first, then Horizontal, then Vertical, from (uv0, uv1, uv2, uv3)
OrderedFlips(flip) ==
  LET a0 == << 0, 1, 2, 3 >>
      a1 == IF "Diagonally" \in flip THEN Permuted(a0, DiagonalSwap) ELSE a0
      a2 == IF "Horizontally" \in flip THEN Permuted(a1, HorizontalSwap) ELSE a1
  IN  IF "Vertically" \in flip THEN Permuted(a2, VerticalSwap) ELSE a2

\* C6: in a rebuilt stream the texture coordinates of the four corners of a
\* cell are the identity assignment (uv0, uv1, uv2, uv3) after the Diagonal
\* swap, then the Horizontal swaps, then the Vertical swaps, each applied only
\* if its flag is set on the cell; the corner positions are those of the
\* cell's box whatever the flags.
C6_FlipOrder ==
  RebuiltInsideGrid =>
    \A c \in NonEmptyIn(m_rect) : \A i \in 1..4 :
      LET v == SixOf(c)[CornerSlot[i]]
      IN  /\ v.texCoords = TexCorner(getTile(c), OrderedFlips(getFlip(c))[i])
          /\ v.position = BoxCorners(CellPosition(c), CellSize)[i]

\* a rebuilt stream holds a cell with all three flags set
C6_Witness ==
  /\ RebuiltInsideGrid
  /\ \E c \in NonEmptyIn(m_rect) : getFlip(c) = Flip
  /\ Len(m_vertices) >= 12

\* C7: a stream rebuilt by draw over a rectangle of the grid holds six
\* vertices for each cell of the rectangle with a tile and none for the
\* others, the cells in row-major order, and the six vertices of a cell are
\* its corners top-left, top-right, bottom-left, bottom-left, top-right,
\* bottom-right.
C7_StreamLayout ==
  RebuiltInsideGrid =>
    /\ Len(m_vertices) = 6 * Cardinality(NonEmptyIn(m_rect))
    /\ \A c \in NonEmptyIn(m_rect) :
         LET six == SixOf(c)
             corners == BoxCorners(CellPosition(c), CellSize)
         IN  /\ [k \in 1..6 |-> six[k].position]
                  = << corners[1], corners[2], corners[3],
                       corners[3], corners[2], corners[4] >>
             /\ \A k \in 1..6 : six[k].texCoords.tile = getTile(c)
             /\ six[4] = six[3]
             /\ six[5] = six[2]

\* a rebuilt stream over two rows and two columns with an empty cell between
\* cells that hold a tile
C7_Witness ==
  /\ RebuiltInsideGrid
  /\ m_rect.max.x > m_rect.min.x
  /\ m_rect.max.y > m_rect.min.y
  /\ Cardinality(NonEmptyIn(m_rect)) >= 3
  /\ \E p \in DOMAIN m_tiles : p.x <= m_rect.max.x /\ getTile(p) = NoTile

\* the box position the placement rules give, in halves of a world unit: the
\* odd rows of a staggered layer are shifted by half the tile width
HalfUnitPosition(c) ==
  IF m_orientation = "Orthogonal"
  THEN Vec(2 * (c.x * m_tileSize.x + m_tileset.offset.x),
           2 * (c.y * m_tileSize.y + m_tileset.offset.y))
  ELSE Vec(2 * c.x * m_tileSize.x + (IF c.y % 2 = 1 THEN m_tileSize.x ELSE 0)
             + 2 * m_tileset.offset.x,
           c.y * m_tileSize.y + 2 * m_tileset.offset.y)

HalfUnitSize ==
  IF m_orientation = "Orthogonal"
  THEN Vec(2 * m_tileSize.x, 2 * m_tileSize.y)
  ELSE Vec(2 * m_tileset.tileSize.x, 2 * m_tileset.tileSize.y)

\* C8: the box of a tessellated cell (x, y) is at (x*w, y*h) + o with size
\* (w, h) in an orthogonal layer; in a staggered layer it has the tileset's
\* tile size, is h/2 lower per row, and is w/2 further right in odd rows,
\* then shifted by o.
C8_Placement ==
  RebuiltInsideGrid =>
    \A c \in NonEmptyIn(m_rect) :
      LET topLeft == SixOf(c)[1].position
          bottomRight == SixOf(c)[6].position
      IN  /\ topLeft = HalfUnitPosition(c)
          /\ bottomRight = Vec(topLeft.x + HalfUnitSize.x, topLeft.y + HalfUnitSize.y)

\* C9: every draw that passes the first return presents the tessellation of
\* the current cells with the current tile size over the cached rectangle
\* (stated for cached rectangles inside the grid, where every cell read is a
\* cell of the grid).
C9_PresentsCurrentGrid ==
  (call.name = "draw" /\ presented /\ InsideGrid(m_rect))
    => \A g \in Garbage : m_vertices = updateGeometry(m_rect, g)

\* C10: a draw whose local rectangle does not intersect the layer bounds
\* presents a stream without vertices (stated for layers that have a cell
\* (0, 0)).
C10_NoIntersection ==
  (/\ call.name = "draw" /\ presented
   /\ m_layerSize.x >= 1 /\ m_layerSize.y >= 1
   /\ ~intersects(LocalRect(call.arg), LayerRect))
    => Len(m_vertices) = 0

====
